---- MODULE Spec2Model ----
(***************************************************************************)
(* A model of detect_secrets/core/secrets_collection.py.                   *)
(*                                                                         *)
(* A SecretsCollection is a dict from file name to a Python set of         *)
(* PotentialSecret objects.  Python sets and objects are references, so    *)
(* the model keeps a heap of objects (heap), the collections' dicts        *)
(* (data), and which dict entries refer to the same set object (alias).    *)
(***************************************************************************)
EXTENDS Integers, Sequences, FiniteSets, TLC

\* ---------------------------------------------------------------- bounds
MaxLine == 2
MaxCalls == 2

\* -------------------------------------------------------------- universe
Files == {"a.py", "b.py"}
Paths == Files \cup {"./a.py"}
Hashes == {"H1", "H2"}
Copies == {1, 2, 3}
Colls == {"a", "b", "r"}
ObjIds == Paths \X Hashes \X Copies
Lines == 0..MaxLine
TriState == {"None", "True", "False"}
Slots == Colls \X Files

VARIABLES
    heap,     \* object id -> the object's __dict__ (attribute name -> value)
    data,     \* collection -> (file name -> set of object ids): SecretsCollection.data
    alias,    \* sets of slots <<collection, file>> whose dict entry is one set object
    disk,     \* the file names for which os.path.exists is true
    last,     \* the last call: its name, arguments and outcome
    pre,      \* heap, data and alias as they were before the last call
    calls,    \* number of calls made so far
    pool      \* the worker pool of a scan_files call in progress

vars == <<heap, data, alias, disk, last, pre, calls, pool>>

\* ------------------------------------------------------ PotentialSecret
\* The attributes a PotentialSecret object carries.
NewSecret(filename, hash, line, isSecret, isVerified) ==
    [type |-> "AWSKeyDetector", filename |-> filename, secret_hash |-> hash,
     line_number |-> line, is_secret |-> isSecret, is_verified |-> isVerified,
     secret_value |-> "raw"]

\* PotentialSecret.__eq__ / __hash__: the fields that identify a secret.
KeyOf(d) == <<d.filename, d.secret_hash, d.type>>

Key(h, o) == KeyOf(h[o])

HasAttr(h, o, attr) == attr \in DOMAIN h[o]

\* dict.pop(attr) on the object's __dict__ (the caller checks HasAttr first).
Pop(d, attr) == [x \in (DOMAIN d) \ {attr} |-> d[x]]

\* `secret in S` for a Python set S of objects: membership by __eq__/__hash__.
InSet(h, o, S) == \E m \in S : Key(h, m) = Key(h, o)

\* {secret: secret for secret in S}[o]: the member of S equal to o.
Lookup(h, o, S) == CHOOSE m \in S : Key(h, m) = Key(h, o)

\* ------------------------------------------------------ Collection Store
\* SecretsCollection.files
FilesOf(d, c) == DOMAIN d[c]

\* SecretsCollection.__getitem__ for reading: a missing key of the defaultdict
\* reads as the empty set.
Get(d, c, f) == IF f \in DOMAIN d[c] THEN d[c][f] ELSE {}

Referenced(d) == UNION {d[c][f] : <<c, f>> \in {s \in Slots : s[2] \in DOMAIN d[s[1]]}}

\* Objects no collection refers to any more are garbage.
Collect(h, d) == [o \in (DOMAIN h) \cap Referenced(d) |-> h[o]]

Class(al, s) == {s} \cup UNION {cl \in al : s \in cl}

\* The slots S get set objects of their own (or are deleted).
Detach(al, S) == {cl \in {k \ S : k \in al} : Cardinality(cl) >= 2}

\* Slot s now refers to the set object of slot t.
Attach(al, s, t) ==
    LET cls == Class(Detach(al, {s}), t)
    IN  {cl \in Detach(al, {s}) : t \notin cl} \cup {cls \cup {s}}

Snapshot == [heap |-> heap, data |-> data, alias |-> alias]

\* ---------------------------------------------------------------- merge
\* MergeInto without the "only if not yet verified" guard.
MergeInto_Overwrite(m, old) ==
    LET m1 == IF m.is_secret = "None"
              THEN [m EXCEPT !["is_secret"] = old.is_secret] ELSE m
    IN  [m1 EXCEPT !["is_verified"] = old.is_verified]

\* MergeInto that also takes the old line number.
MergeInto_TakesLine(m, old) ==
    LET m1 == IF m.is_secret = "None"
              THEN [m EXCEPT !["is_secret"] = old.is_secret] ELSE m
        m2 == IF ~m1.is_verified
              THEN [m1 EXCEPT !["is_verified"] = old.is_verified] ELSE m1
    IN  [m2 EXCEPT !["line_number"] = old.line_number]

\* The body of the inner loop of merge for one matched pair: the new
\* attributes of the current secret m, given the old secret's attributes.
MergeInto(m, old) ==
    LET m1 == IF m.is_secret = "None"
              THEN [m EXCEPT !["is_secret"] = old.is_secret] ELSE m
    IN  IF ~m1.is_verified
        THEN [m1 EXCEPT !["is_verified"] = old.is_verified] ELSE m1

\* heap after cur.merge(prev)
MergeHeap(h, d, cur, prev) ==
    [o \in DOMAIN h |->
        IF \E f \in FilesOf(d, prev) \cap FilesOf(d, cur) :
              o \in d[cur][f] /\ InSet(h, o, d[prev][f])
        THEN LET f == CHOOSE g \in FilesOf(d, prev) \cap FilesOf(d, cur) :
                          o \in d[cur][g] /\ InSet(h, o, d[prev][g])
             IN  MergeInto(h[o], h[Lookup(h, o, d[prev][f])])
        ELSE h[o]]

Merge(cur, prev) ==
    /\ heap' = MergeHeap(heap, data, cur, prev)
    /\ last' = [op |-> "merge", self |-> cur, other |-> prev, result |-> "ok"]
    /\ pre' = Snapshot
    /\ calls' = calls + 1
    /\ UNCHANGED <<data, alias, disk, pool>>

\* ----------------------------------------------------------------- trim
\* The files of the rescanned collection; an omitted one is an empty collection.
ScannedFiles(d, hasScanned, scanned) == IF hasScanned THEN FilesOf(d, scanned) ELSE {}

\* TrimFileset that forgets the default pruning of files missing on disk.
TrimFileset_NoDisk(d, dk, self, hasScanned, hasList, filelist) ==
    IF hasScanned /\ hasList THEN filelist ELSE {}

\* fileset: the given list, or the files of self missing on disk when
\* scanned_results is omitted; an empty or omitted list gives the empty set.
TrimFileset(d, dk, self, hasScanned, hasList, filelist) ==
    IF ~hasScanned THEN {f \in FilesOf(d, self) : f \notin dk}
    ELSE IF hasList THEN filelist ELSE {}

\* The secrets of self[f] that the first loop adds to result[f].
TrimMatched(h, d, self, scanned, f) ==
    {o \in d[self][f] : InSet(h, o, d[scanned][f])}

\* The files the first loop visits without skipping.
TrimCommon(d, self, hasScanned, scanned) ==
    ScannedFiles(d, hasScanned, scanned) \cap FilesOf(d, self)

\* Does handling existing secret o (matched in scanned[f]) read a missing attribute?
TrimRaisesOn(h, d, scanned, f, o) ==
    \/ ~HasAttr(h, o, "line_number")
    \/ /\ h[o].line_number # 0
       /\ ~HasAttr(h, Lookup(h, o, d[scanned][f]), "line_number")

\* The line number refresh of the existing secrets in U (pairs <<f, o>>).
TrimLines(h, d, scanned, U) ==
    [o \in DOMAIN h |->
        IF \E f \in Files : <<f, o>> \in U /\ h[o].line_number # 0
        THEN LET f == CHOOSE g \in Files : <<g, o>> \in U
             IN  [h[o] EXCEPT !["line_number"] =
                                 h[Lookup(h, o, d[scanned][f])].line_number]
        ELSE h[o]]

\* The keys and sets of the dict `result` when the call completes.
TrimResult(d, self, hasScanned, scanned, fileset, h) ==
    LET common  == TrimCommon(d, self, hasScanned, scanned)
        filled  == {f \in common : TrimMatched(h, d, self, scanned, f) # {}}
        kept    == {f \in FilesOf(d, self) \ filled : f \notin fileset}
    IN  [f \in filled \cup kept |->
            IF f \in filled THEN TrimMatched(h, d, self, scanned, f) ELSE d[self][f]]

Trim(self, hasScanned, scanned, hasList, filelist) ==
    LET common  == TrimCommon(data, self, hasScanned, scanned)
        pairs   == {<<f, o>> \in Files \X (DOMAIN heap) :
                       f \in common /\ o \in TrimMatched(heap, data, self, scanned, f)}
        bad     == {p \in pairs : TrimRaisesOn(heap, data, scanned, p[1], p[2])}
        fileset == TrimFileset(data, disk, self, hasScanned, hasList, filelist)
        result  == TrimResult(data, self, hasScanned, scanned, fileset, heap)
        filled  == {f \in common : TrimMatched(heap, data, self, scanned, f) # {}}
        gone    == {<<self, f>> : f \in (FilesOf(data, self) \ DOMAIN result) \cup filled}
    IN  /\ IF bad = {}
           THEN /\ data' = [data EXCEPT ![self] = result]
                /\ heap' = Collect(TrimLines(heap, data, scanned, pairs), data')
                /\ alias' = Detach(alias, gone)
                /\ last' = [op |-> "trim", self |-> self, other |-> scanned,
                            result |-> "ok", hasScanned |-> hasScanned,
                            hasList |-> hasList, filelist |-> filelist]
           ELSE \* AttributeError: the files visited before, and part of the
                \* file being visited, have had their line numbers refreshed.
                \E g \in {p[1] : p \in bad} :
                  \E done \in SUBSET {f \in common : \A p \in bad : p[1] # f} :
                    \E part \in SUBSET {p \in pairs \ bad : p[1] = g} :
                      /\ heap' = TrimLines(heap, data, scanned,
                                           part \cup {p \in pairs : p[1] \in done})
                      /\ last' = [op |-> "trim", self |-> self, other |-> scanned,
                                  result |-> "raised", hasScanned |-> hasScanned,
                                  hasList |-> hasList, filelist |-> filelist]
                      /\ UNCHANGED <<data, alias>>
        /\ pre' = Snapshot
        /\ calls' = calls + 1
        /\ UNCHANGED <<disk, pool>>

\* -------------------------------------------------------------- __sub__
\* Python set difference S - T of two sets of secrets (by __eq__/__hash__),
\* here with object identity in place of __eq__.
SetMinus_ByObject(h, S, T) == S \ T

\* Python set difference S - T of two sets of secrets (by __eq__/__hash__).
SetMinus(h, S, T) == {o \in S : ~InSet(h, o, T)}

\* The dict of the collection self - other.
SubData(h, d, self, other) ==
    [f \in FilesOf(d, self) |->
        IF f \in FilesOf(d, other) THEN SetMinus(h, d[self][f], d[other][f])
        ELSE d[self][f]]

RECURSIVE AttachAll(_, _, _, _)
\* output[f] = self[f] for every f in F: the entry of out is self's set object.
AttachAll(al, out, self, F) ==
    IF F = {} THEN al
    ELSE LET f == CHOOSE g \in F : TRUE
         IN  AttachAll(Attach(al, <<out, f>>, <<self, f>>), out, self, F \ {f})

\* out = self - other
Sub(out, self, other) ==
    /\ data' = [data EXCEPT ![out] = SubData(heap, data, self, other)]
    /\ heap' = Collect(heap, data')
    /\ alias' = AttachAll(Detach(alias, {out} \X Files), out, self,
                          FilesOf(data, self) \ FilesOf(data, other))
    /\ last' = [op |-> "sub", self |-> self, other |-> other, result |-> "ok"]
    /\ pre' = Snapshot
    /\ calls' = calls + 1
    /\ UNCHANGED <<disk, pool>>

\* ------------------------------------------------------------ scan_file
\* os.path.relpath(path, root) for the paths of the model.
relpath(p) == IF p = "./a.py" THEN "a.py" ELSE p

\* A fresh object for a secret the scanner reports.
FreshObj(h, filename, hash) ==
    <<filename, hash, CHOOSE c \in Copies :
                         /\ <<filename, hash, c>> \notin DOMAIN h
                         /\ \A c2 \in Copies : c2 < c => <<filename, hash, c2>> \in DOMAIN h>>

CanAllocate(h, filename, hash) == \E c \in Copies : <<filename, hash, c>> \notin DOMAIN h

\* Add that assigns the entry, self[key] = {secret}, where it should add to it.
Add_Assign(st, c, key, sec) ==
    LET o == FreshObj(st.heap, sec.filename, sec.secret_hash)
    IN  [heap  |-> (o :> sec) @@ st.heap,
         data  |-> [x \in Colls |->
                      [f \in FilesOf(st.data, x) \cup (IF x = c THEN {key} ELSE {}) |->
                          IF x = c /\ f = key THEN {o} ELSE st.data[x][f]]],
         alias |-> Detach(st.alias, {<<c, key>>})]

\* self[key].add(secret) for a new object with attributes sec, on the state
\* st = [heap, data, alias]: a set keeps the member it has when an equal
\* one is added; every entry referring to the same set object sees the
\* new member.
Add(st, c, key, sec) ==
    LET o   == FreshObj(st.heap, sec.filename, sec.secret_hash)
        S   == Get(st.data, c, key)
        h1  == (o :> sec) @@ st.heap
        cls == IF key \in FilesOf(st.data, c) THEN Class(st.alias, <<c, key>>)
               ELSE {<<c, key>>}
    IN  IF \E m \in S : KeyOf(st.heap[m]) = KeyOf(sec)
        THEN [st EXCEPT !.data =
                 [x \in Colls |-> [f \in FilesOf(st.data, x) \cup
                                         (IF x = c THEN {key} ELSE {}) |->
                                     Get(st.data, x, f)]]]
        ELSE [heap  |-> h1,
              data  |-> [x \in Colls |->
                           [f \in FilesOf(st.data, x) \cup (IF x = c THEN {key} ELSE {}) |->
                               IF <<x, f>> \in cls THEN Get(st.data, x, f) \cup {o}
                               ELSE st.data[x][f]]],
              alias |-> st.alias]

RECURSIVE AddAll(_, _, _, _)
\* for secret in secrets: self[keyOf(secret)].add(secret)
AddAll(st, c, secrets, i) ==
    IF i > Len(secrets) THEN st
    ELSE AddAll(Add(st, c, relpath(secrets[i].filename), secrets[i]), c, secrets, i + 1)

\* c.scan_file(filename), the scanner reporting the list secrets.
ScanFile(c, filename, secrets) ==
    LET st == AddAll(Snapshot, c, secrets, 1)
    IN  /\ \A i \in 1..Len(secrets) :
              /\ secrets[i].filename = filename
              /\ CanAllocate(heap, filename, secrets[i].secret_hash)
        /\ heap' = st.heap
        /\ data' = st.data
        /\ alias' = st.alias
        /\ last' = [op |-> "scan_file", self |-> c, other |-> c, result |-> "ok"]
        /\ pre' = Snapshot
        /\ calls' = calls + 1
        /\ UNCHANGED <<disk, pool>>

\* ------------------------------------------------------------ scan_files
IdlePool == [pc |-> "idle", self |-> "a", paths |-> {}, results |-> [p \in {} |-> <<>>],
             pending |-> {}, outq |-> <<>>, faulted |-> {}, absorbed |-> <<>>]

\* What the scanner may report for a file: a list of secrets of that file,
\* where one secret may occur on several lines.
ScanOutputs(p) ==
    {<<>>,
     <<NewSecret(p, "H1", 1, "None", FALSE)>>,
     <<NewSecret(p, "H1", 1, "None", FALSE), NewSecret(p, "H1", MaxLine, "None", FALSE)>>,
     <<NewSecret(p, "H2", MaxLine, "None", FALSE), NewSecret(p, "H1", 1, "None", FALSE)>>}

\* c.scan_files(*paths) with two or more paths: the pool is created and
\* imap_unordered hands one task per path to the workers.
ScanFilesStart(c, paths) ==
    /\ pool.pc = "idle"
    /\ Cardinality(paths) >= 2
    /\ \E results \in [paths -> UNION {ScanOutputs(p) : p \in paths}] :
          /\ \A p \in paths : results[p] \in ScanOutputs(p)
          /\ pool' = [pc |-> "running", self |-> c, paths |-> paths, results |-> results,
                      pending |-> paths, outq |-> <<>>, faulted |-> {}, absorbed |-> <<>>]
    /\ last' = [op |-> "scan_files", self |-> c, other |-> c, result |-> "running"]
    /\ pre' = Snapshot
    /\ calls' = calls + 1
    /\ UNCHANGED <<heap, data, alias, disk>>

\* A worker finishes _scan_file_and_serialize(p): it returns the list of
\* secrets, or the scan raises; either way the outcome joins the results
\* of imap_unordered in completion order.
WorkerDone(p) ==
    /\ pool.pc = "running"
    /\ p \in pool.pending
    /\ \E fault \in BOOLEAN :
          pool' = [pool EXCEPT !.pending = @ \ {p},
                               !.outq = Append(@, [path |-> p, fault |-> fault]),
                               !.faulted = IF fault THEN @ \cup {p} ELSE @]
    /\ UNCHANGED <<heap, data, alias, disk, last, pre, calls>>

\* The loop body for the next result of imap_unordered: every secret of the
\* list is added under its path relative to root.
AbsorbResult ==
    /\ pool.pc = "running"
    /\ pool.outq # <<>>
    /\ ~Head(pool.outq).fault
    /\ LET p  == Head(pool.outq).path
           st == AddAll(Snapshot, pool.self, pool.results[p], 1)
       IN  /\ heap' = st.heap
           /\ data' = st.data
           /\ alias' = st.alias
           /\ pool' = [pool EXCEPT !.outq = Tail(@), !.absorbed = Append(@, p)]
    /\ UNCHANGED <<disk, last, pre, calls>>

\* ObserveFault that drops the failed result and carries on with the loop.
ObserveFault_Skip ==
    /\ pool.pc = "running"
    /\ pool.outq # <<>>
    /\ Head(pool.outq).fault
    /\ pool' = [pool EXCEPT !.outq = Tail(@)]
    /\ UNCHANGED <<heap, data, alias, disk, last, pre, calls>>

\* The next result of imap_unordered is a worker's exception: it is raised
\* in the loop, the with block terminates the pool and the call fails.
ObserveFault ==
    /\ pool.pc = "running"
    /\ pool.outq # <<>>
    /\ Head(pool.outq).fault
    /\ pool' = [pool EXCEPT !.pc = "failed", !.pending = {}, !.outq = <<>>]
    /\ last' = [last EXCEPT !.result = "raised"]
    /\ UNCHANGED <<heap, data, alias, disk, pre, calls>>

\* imap_unordered is exhausted: the call returns.
ScanFilesReturn ==
    /\ pool.pc = "running"
    /\ pool.pending = {}
    /\ pool.outq = <<>>
    /\ pool' = [pool EXCEPT !.pc = "returned"]
    /\ last' = [last EXCEPT !.result = "ok"]
    /\ UNCHANGED <<heap, data, alias, disk, pre, calls>>

\* --------------------------------------------------- __eq__, exactly_equals
Perms(S) == {q \in [1..Cardinality(S) -> S] :
                \A i, j \in 1..Cardinality(S) : i # j => q[i] # q[j]}

\* The key (secret_hash, type) of the dicts self_mapping and other_mapping.
HashType(h, o) == <<h[o].secret_hash, h[o].type>>

\* {(secret.secret_hash, secret.type): secret for secret in ord}[k]: a later
\* secret with the same key replaces an earlier one.
MappingAt(h, ord, k) ==
    ord[CHOOSE i \in 1..Len(ord) :
            /\ HashType(h, ord[i]) = k
            /\ \A j \in 1..Len(ord) : HashType(h, ord[j]) = k => j <= i]

\* mapping.values() in the dict's order, for the set iterated in the order ord.
MappingValues(h, ord) ==
    LET firsts == {i \in 1..Len(ord) :
                      \A j \in 1..Len(ord) : HashType(h, ord[j]) = HashType(h, ord[i]) => i <= j}
        ith(n) == CHOOSE i \in firsts : Cardinality({j \in firsts : j < i}) = n - 1
    IN  [n \in 1..Cardinality(firsts) |-> MappingAt(h, ord, HashType(h, ord[ith(n)]))]

KeysOfSeq(h, q) == {Key(h, q[i]) : i \in 1..Len(q)}

\* The strict comparison of secretA with secretB: vars(secret) is the
\* object's own __dict__, so each pop removes the attribute from the object.
StrictPair(h, A, B) ==
    IF ~HasAttr(h, A, "secret_value") THEN [heap |-> h, res |-> "KeyError"]
    ELSE LET h1 == [h EXCEPT ![A] = Pop(h[A], "secret_value")]
    IN  IF ~HasAttr(h1, B, "secret_value") THEN [heap |-> h1, res |-> "KeyError"]
    ELSE LET h2 == [h1 EXCEPT ![B] = Pop(h1[B], "secret_value")]
    IN  IF ~HasAttr(h2, A, "line_number") THEN [heap |-> h2, res |-> "KeyError"]
    ELSE IF h2[A].line_number # 0 /\ ~HasAttr(h2, B, "line_number")
    THEN [heap |-> h2, res |-> "KeyError"]
    ELSE IF h2[A].line_number = 0 \/ h2[B].line_number = 0
    THEN LET h3 == [h2 EXCEPT ![A] = Pop(h2[A], "line_number")]
         IN  IF ~HasAttr(h3, B, "line_number") THEN [heap |-> h3, res |-> "KeyError"]
             ELSE LET h4 == [h3 EXCEPT ![B] = Pop(h3[B], "line_number")]
                  IN  [heap |-> h4, res |-> IF h4[A] # h4[B] THEN "False" ELSE "ok"]
    ELSE [heap |-> h2, res |-> IF h2[A] # h2[B] THEN "False" ELSE "ok"]

RECURSIVE StrictPairs(_, _, _, _)
\* for secretA in self_mapping.values(): ...
StrictPairs(h, valsA, ordB, i) ==
    IF i > Len(valsA) THEN [heap |-> h, res |-> "ok"]
    ELSE LET r == StrictPair(h, valsA[i], MappingAt(h, ordB, HashType(h, valsA[i])))
         IN  IF r.res # "ok" THEN r ELSE StrictPairs(r.heap, valsA, ordB, i + 1)

\* The body of `for filename in self.files` for the file f, the sets self[f]
\* and other[f] iterated in the orders ordA and ordB; res "ok" means that
\* the loop goes on to the next file.
EqFile(h, strict, ordA, ordB) ==
    LET va == MappingValues(h, ordA)
        vb == MappingValues(h, ordB)
    IN  IF KeysOfSeq(h, va) # KeysOfSeq(h, vb) THEN [heap |-> h, res |-> "False"]
        ELSE IF ~strict THEN [heap |-> h, res |-> "ok"]
        ELSE StrictPairs(h, va, ordB, 1)

RECURSIVE EqFiles(_, _, _, _, _, _)
\* The outcomes of `for filename in self.files: ...` over the files F still
\* to visit: Python fixes neither the order of the files nor the order in
\* which a set is iterated.
EqFiles(h, d, self, other, strict, F) ==
    IF F = {} THEN {[heap |-> h, res |-> "True"]}
    ELSE UNION {
           LET r == EqFile(h, strict, x[2], x[3])
           IN  IF r.res = "ok" THEN EqFiles(r.heap, d, self, other, strict, F \ {x[1]})
               ELSE {r}
           : x \in UNION {{f} \X Perms(d[self][f]) \X Perms(d[other][f]) : f \in F}}

\* self.__eq__(other, strict); exactly_equals is the call with strict = TRUE.
Eq(self, other, strict) ==
    /\ IF FilesOf(data, self) # FilesOf(data, other)
       THEN /\ heap' = heap
            /\ last' = [op |-> "eq", self |-> self, other |-> other,
                        result |-> "False", strict |-> strict]
       ELSE \E r \in EqFiles(heap, data, self, other, strict, FilesOf(data, self)) :
              /\ heap' = r.heap
              /\ last' = [op |-> "eq", self |-> self, other |-> other,
                          result |-> r.res, strict |-> strict]
    /\ pre' = Snapshot
    /\ calls' = calls + 1
    /\ UNCHANGED <<data, alias, disk, pool>>

ExactlyEquals(self, other) == Eq(self, other, TRUE)

\* ------------------------------------------------------ initial states
\* The identity (hash) values a file may hold in the initial collections.
Universe(f) == IF f = "a.py" THEN Hashes ELSE {"H1"}

Shapes == UNION {{s \in [F -> SUBSET Hashes] : \A f \in F : s[f] \subseteq Universe(f)}
                 : F \in SUBSET Files}

ShapeObjs(s, copy) == {<<f, h, copy>> : <<f, h>> \in {x \in Files \X Hashes :
                                            x[1] \in DOMAIN s /\ x[2] \in s[x[1]]}}

ShapeData(s, copy) == [f \in DOMAIN s |-> {<<f, h, copy>> : h \in s[f]}]

EmptyColl == [f \in {} |-> {}]

NoCall == [op |-> "none", self |-> "a", other |-> "b", result |-> "ok"]

\* Two collections as load_from_baseline or a scan builds them, with the
\* attributes <<line_number, is_secret, is_verified>> of their secrets drawn
\* from domA (collection a) and domB (collection b).
InitPair(shapesB, domA, domB) ==
    \E sa \in Shapes, sb \in shapesB :
      \E ha \in [ShapeObjs(sa, 1) -> domA], hb \in [ShapeObjs(sb, 2) -> domB] :
        /\ heap = [o \in ShapeObjs(sa, 1) \cup ShapeObjs(sb, 2) |->
                     LET v == IF o[3] = 1 THEN ha[o] ELSE hb[o]
                     IN  NewSecret(o[1], o[2], v[1], v[2], v[3])]
        /\ data = [c \in Colls |->
                     IF c = "a" THEN ShapeData(sa, 1)
                     ELSE IF c = "b" THEN ShapeData(sb, 2) ELSE EmptyColl]
        /\ alias = {}
        /\ last = NoCall
        /\ pre = [heap |-> heap, data |-> data, alias |-> alias]
        /\ calls = 0
        /\ pool = IdlePool

\* ---------------------------------------------------- merge: one call
InitMerge ==
    /\ InitPair(Shapes, {MaxLine} \X TriState \X BOOLEAN, {1} \X TriState \X BOOLEAN)
    /\ disk = Files

NextMerge ==
    /\ calls = 0
    /\ \E cur \in {"a", "b"}, prev \in {"a", "b"} : cur # prev /\ Merge(cur, prev)

SpecMerge == InitMerge /\ [][NextMerge]_vars

\* ----------------------------------------------------- trim: one call
InitTrim ==
    /\ InitPair(Shapes, Lines \X {"None"} \X {FALSE}, Lines \X {"None"} \X {FALSE})
    /\ disk \in SUBSET Files

NextTrim ==
    /\ calls = 0
    /\ \/ Trim("a", FALSE, "b", FALSE, {})
       \/ \E filelist \in SUBSET Files : Trim("a", TRUE, "b", TRUE, filelist)
       \/ Trim("a", TRUE, "b", FALSE, {})

SpecTrim == InitTrim /\ [][NextTrim]_vars

\* ------------------------------------ subtraction, then use of the result
InitSub ==
    /\ InitPair(Shapes, {<<1, "None", FALSE>>},
                {<<MaxLine, "True", TRUE>>, <<1, "None", FALSE>>})
    /\ disk = Files

NextSub ==
    /\ calls < MaxCalls
    /\ \/ Sub("r", "a", "b")
       \/ \E f \in Files, h \in Hashes :
             ScanFile("r", f, <<NewSecret(f, h, MaxLine, "None", FALSE)>>)
       \/ Merge("r", "b")
       \/ \E hasList \in BOOLEAN : Trim("r", TRUE, "b", hasList, Files)

SpecSub == InitSub /\ [][NextSub]_vars

\* --------------------------------------------------- equality comparisons
InitEq ==
    /\ InitPair(Shapes, Lines \X {"None"} \X {FALSE}, Lines \X {"None"} \X {FALSE})
    /\ disk = Files

NextEq ==
    /\ calls < MaxCalls
    /\ \/ Eq("a", "b", FALSE)
       \/ ExactlyEquals("a", "b")
       \/ ExactlyEquals("a", "a")
       \/ Trim("a", TRUE, "b", FALSE, {})

SpecEq == InitEq /\ [][NextEq]_vars

\* ------------------------------------------------- one scan_files call
EmptyShape == [f \in {} |-> {}]

InitScan ==
    /\ InitPair({EmptyShape}, {<<0, "True", TRUE>>}, {<<0, "None", FALSE>>})
    /\ disk = Files

NextScan ==
    \/ calls = 0 /\ \E paths \in SUBSET Paths : ScanFilesStart("a", paths)
    \/ \E p \in Paths : WorkerDone(p)
    \/ AbsorbResult
    \/ ObserveFault
    \/ ScanFilesReturn

SpecScan == InitScan /\ [][NextScan]_vars

\* ----------------------------------------------------------------------
\* Properties of merge (SpecMerge)

\* The pairs <<f, o, p>>: o in current[f] and p in previous[f] are the
\* same secret, in the state before the last call.
MatchedBefore(cur, prev) ==
    {t \in Files \X (DOMAIN pre.heap) \X (DOMAIN pre.heap) :
        /\ t[1] \in FilesOf(pre.data, cur) \cap FilesOf(pre.data, prev)
        /\ t[2] \in pre.data[cur][t[1]]
        /\ t[3] \in pre.data[prev][t[1]]
        /\ Key(pre.heap, t[2]) = Key(pre.heap, t[3])}

\* C1: after current.merge(previous), a matched Finding of current is
\* verified if either matched Finding was verified before, and its isSecret
\* is unknown only if it was unknown in both.
C1_MergeAuditMonotone ==
    last.op = "merge" =>
        \A t \in MatchedBefore(last.self, last.other) :
            /\ (pre.heap[t[2]].is_verified \/ pre.heap[t[3]].is_verified)
                   => heap[t[2]].is_verified
            /\ heap[t[2]].is_secret = "None"
                   => /\ pre.heap[t[2]].is_secret = "None"
                      /\ pre.heap[t[3]].is_secret = "None"

C1_Witness ==
    /\ last.op = "merge"
    /\ \E t \in MatchedBefore(last.self, last.other) :
          /\ ~pre.heap[t[2]].is_verified /\ pre.heap[t[3]].is_verified
          /\ heap[t[2]].is_verified
          /\ pre.heap[t[2]].is_secret = "None" /\ heap[t[2]].is_secret = "False"
    /\ \E t \in MatchedBefore(last.self, last.other) :
          /\ pre.heap[t[2]].is_verified /\ ~pre.heap[t[3]].is_verified
          /\ pre.heap[t[2]].is_secret = "True" /\ pre.heap[t[3]].is_secret = "None"

\* C6: current.merge(previous) changes only is_secret and is_verified of
\* current's Findings: the files, the identity keys per file and the line
\* numbers of current stay, and previous is not modified.
C6_MergeFrame ==
    last.op = "merge" =>
        /\ data = pre.data
        /\ alias = pre.alias
        /\ DOMAIN heap = DOMAIN pre.heap
        /\ \A o \in DOMAIN heap :
              /\ DOMAIN heap[o] = DOMAIN pre.heap[o]
              /\ \A attr \in DOMAIN heap[o] \ {"is_secret", "is_verified"} :
                    heap[o][attr] = pre.heap[o][attr]
        /\ \A f \in FilesOf(data, last.other) : \A p \in data[last.other][f] :
              heap[p] = pre.heap[p]

C6_Witness ==
    /\ last.op = "merge"
    /\ heap # pre.heap
    /\ FilesOf(data, last.other) \ FilesOf(data, last.self) # {}
    /\ \E f \in FilesOf(data, last.other) \cap FilesOf(data, last.self) :
          /\ \E p \in data[last.other][f] : ~InSet(heap, p, data[last.self][f])
          /\ \E t \in MatchedBefore(last.self, last.other) :
                t[1] = f /\ heap[t[2]].line_number # heap[t[3]].line_number

\* ----------------------------------------------------------------------
\* Properties of trim (SpecTrim)

\* C2: after self.trim(rescanned, filelist), every file that is a key of
\* both holds exactly the Findings of self whose identity key is in
\* rescanned's set for the file, whatever the filelist.
C2_TrimIntersection ==
    (last.op = "trim" /\ last.result = "ok" /\ last.hasScanned) =>
        \A f \in FilesOf(pre.data, last.self) \cap FilesOf(pre.data, last.other) :
            Get(data, last.self, f) =
                {o \in pre.data[last.self][f] :
                    InSet(pre.heap, o, pre.data[last.other][f])}

\* The filelist that decides about the files rescanned does not list.
EffectiveFilelist ==
    IF ~last.hasScanned
    THEN {f \in FilesOf(pre.data, last.self) : f \notin disk}
    ELSE IF last.hasList THEN last.filelist ELSE {}

\* The files of self that are not keys of rescanned.
UnscannedFiles ==
    FilesOf(pre.data, last.self) \
        (IF last.hasScanned THEN FilesOf(pre.data, last.other) ELSE {})

\* C3: after self.trim(rescanned, filelist), a file of self that is not a
\* key of rescanned loses all its Findings if it is in the effective
\* filelist, and keeps its set of Findings unchanged otherwise; the
\* effective filelist is the given one or, when rescanned is omitted, the
\* files of self missing on disk.
C3_TrimUnscannedFiles ==
    (last.op = "trim" /\ last.result = "ok") =>
        \A f \in UnscannedFiles :
            IF f \in EffectiveFilelist
            THEN Get(data, last.self, f) = {}
            ELSE /\ f \in FilesOf(data, last.self)
                 /\ data[last.self][f] = pre.data[last.self][f]
                 /\ \A o \in data[last.self][f] : heap[o] = pre.heap[o]

C3_Witness ==
    /\ last.op = "trim" /\ last.result = "ok"
    /\ ~last.hasScanned
    /\ \E f \in UnscannedFiles :
          f \in EffectiveFilelist /\ pre.data[last.self][f] # {}
              /\ Get(data, last.self, f) = {}
    /\ \E f \in UnscannedFiles :
          f \notin EffectiveFilelist /\ Get(data, last.self, f) # {}

\* ----------------------------------------------------------------------
\* Properties of subtraction (SpecSub)

\* C4: for every file f of B, (A - B)[f] has no Finding whose identity key
\* is in B[f] and has every Finding of A[f] whose key is not in B[f]; a
\* file only in A has in A - B exactly the Findings it has in A.
C4_Subtraction ==
    last.op = "sub" =>
        /\ \A f \in FilesOf(pre.data, last.other) :
              /\ \A o \in Get(data, "r", f) : ~InSet(heap, o, pre.data[last.other][f])
              /\ \A o \in Get(pre.data, last.self, f) :
                    ~InSet(pre.heap, o, pre.data[last.other][f])
                        => o \in Get(data, "r", f)
        /\ \A f \in FilesOf(pre.data, last.self) \ FilesOf(pre.data, last.other) :
              /\ f \in FilesOf(data, "r")
              /\ data["r"][f] = pre.data[last.self][f]
              /\ \A o \in data["r"][f] : heap[o] = pre.heap[o]

C4_Witness ==
    /\ last.op = "sub"
    /\ \E f \in FilesOf(pre.data, last.other) \cap FilesOf(pre.data, last.self) :
          /\ Get(data, "r", f) # {}
          /\ Get(data, "r", f) # pre.data[last.self][f]
    /\ \E f \in FilesOf(pre.data, last.self) \ FilesOf(pre.data, last.other) :
          data["r"][f] # {}

\* The Findings of collection c, as the attributes of each object in each file.
Contents(h, d, c) == [f \in FilesOf(d, c) |-> [o \in d[c][f] |-> h[o]]]

\* C9: r = a - b leaves a and b unchanged, and a later mutation of r (a scan
\* absorbed into r, a merge or a trim on r) leaves the file sets of a and
\* the fields of a's Findings unchanged.
C9_SubResultOwnsItsState ==
    /\ last.op = "sub" =>
          /\ Contents(heap, data, "a") = Contents(pre.heap, pre.data, "a")
          /\ Contents(heap, data, "b") = Contents(pre.heap, pre.data, "b")
    /\ (/\ last.op \in {"scan_file", "merge", "trim"}
        /\ last.self = "r"
        /\ pre.data["r"] = SubData(pre.heap, pre.data, "a", "b"))
          => Contents(heap, data, "a") = Contents(pre.heap, pre.data, "a")

\* ----------------------------------------------------------------------
\* Properties of equality (SpecEq)

\* The pairs <<f, o, p>>: o in x[f] and p in y[f] are the same secret.
MatchedIn(h, d, x, y) ==
    {t \in Files \X (DOMAIN h) \X (DOMAIN h) :
        /\ t[1] \in FilesOf(d, x) \cap FilesOf(d, y)
        /\ t[2] \in d[x][t[1]]
        /\ t[3] \in d[y][t[1]]
        /\ Key(h, t[2]) = Key(h, t[3])}

SameKeys(h, d, x, y) ==
    /\ FilesOf(d, x) = FilesOf(d, y)
    /\ \A f \in FilesOf(d, x) :
          {Key(h, o) : o \in d[x][f]} = {Key(h, o) : o \in d[y][f]}

\* The line number of an object, -1 when the object has none.
LineOf(h, o) == IF HasAttr(h, o, "line_number") THEN h[o].line_number ELSE -1

DifferOnlyInLine(h, o, p) ==
    /\ (DOMAIN h[o]) \ {"line_number"} = (DOMAIN h[p]) \ {"line_number"}
    /\ \A attr \in (DOMAIN h[o]) \ {"line_number"} : h[o][attr] = h[p][attr]

\* C5: two collections with the same files and identity keys whose matched
\* Findings differ only in line number are loosely equal, and strictly
\* equal exactly when every matched pair with different line numbers has a
\* zero line number on one side.
C5_LooseAndStrictEquality ==
    (/\ last.op = "eq"
     /\ last.self # last.other
     /\ SameKeys(pre.heap, pre.data, last.self, last.other)
     /\ \A t \in MatchedIn(pre.heap, pre.data, last.self, last.other) :
           DifferOnlyInLine(pre.heap, t[2], t[3]))
        => IF ~last.strict THEN last.result = "True"
           ELSE (last.result = "True") <=>
                  \A t \in MatchedIn(pre.heap, pre.data, last.self, last.other) :
                      LineOf(pre.heap, t[2]) # LineOf(pre.heap, t[3])
                          => (LineOf(pre.heap, t[2]) = 0 \/ LineOf(pre.heap, t[3]) = 0)

\* C10: a.exactly_equals(b) on collections with the same files and identity
\* keys completes with a boolean and changes no field of any Finding.
C10_StrictEqualityReadOnly ==
    (/\ last.op = "eq" /\ last.strict
     /\ SameKeys(pre.heap, pre.data, last.self, last.other))
        => /\ last.result \in {"True", "False"}
           /\ heap = pre.heap

\* ----------------------------------------------------------------------
\* Properties of scan_files (SpecScan)

\* The Findings of collection c by value: file -> set of attribute dicts.
ContentValues(h, d, c) == [f \in FilesOf(d, c) |-> {h[o] : o \in d[c][f]}]

SubmissionOrder == <<"./a.py", "a.py", "b.py">>

RECURSIVE AbsorbInOrder(_, _, _, _, _)
\* The store after absorbing the results of the submitted paths one after
\* the other in the order of the sequence order, from the state st.
AbsorbInOrder(st, c, results, order, i) ==
    IF i > Len(order) THEN st
    ELSE IF order[i] \in DOMAIN results
    THEN AbsorbInOrder(AddAll(st, c, results[order[i]], 1), c, results, order, i + 1)
    ELSE AbsorbInOrder(st, c, results, order, i + 1)

\* C7: when no worker faults, the contents of the collection after
\* scan_files are those of absorbing the results in submission order,
\* whatever the order in which the workers completed.
C7_ScanOrderIndependent ==
    pool.pc = "returned" =>
        LET st == AbsorbInOrder(pre, pool.self, pool.results, SubmissionOrder, 1)
        IN  ContentValues(heap, data, pool.self) = ContentValues(st.heap, st.data, pool.self)

\* All three paths were scanned, and the results reached the store in the
\* reverse of the order of submission.
C7_Witness ==
    /\ pool.pc = "returned"
    /\ pool.paths = Paths
    /\ pool.faulted = {}
    /\ pool.absorbed = <<"b.py", "a.py", "./a.py">>
    /\ \A p \in Paths : Len(pool.results[p]) = 2
    /\ heap # pre.heap
    /\ \E f \in FilesOf(data, pool.self) : Cardinality(data[pool.self][f]) >= 3

\* The secrets with file name p in the collection c.
SecretsOfPath(h, d, c, p) == {h[o] : o \in {x \in Get(d, c, relpath(p)) : h[x].filename = p}}

\* The paths whose results the loop has absorbed.
Absorbed == {pool.absorbed[i] : i \in 1..Len(pool.absorbed)}

\* C8: if a worker faults the call never returns normally, it has failed
\* once every result is consumed, no Finding of the faulted worker's file
\* is added, and the Findings absorbed before the fault stay in the store.
C8_WorkerFaultFailsCall ==
    /\ pool.pc = "returned" => pool.faulted = {}
    /\ (pool.pc # "idle" /\ pool.faulted # {} /\ pool.pending = {} /\ pool.outq = <<>>)
          => pool.pc = "failed"
    /\ \A p \in pool.faulted :
          SecretsOfPath(heap, data, pool.self, p)
              = SecretsOfPath(pre.heap, pre.data, pool.self, p)
    /\ \A p \in Absorbed : \A i \in 1..Len(pool.results[p]) :
          \E o \in Get(data, pool.self, relpath(p)) :
              KeyOf(heap[o]) = KeyOf(pool.results[p][i])

C8_Witness ==
    /\ pool.pc = "failed"
    /\ \E p \in Absorbed : pool.results[p] # <<>>
    /\ \E p \in pool.faulted : pool.results[p] # <<>>
    /\ heap # pre.heap

====
